---- MODULE Spec2Model ----
(***************************************************************************)
(* Model of scripts/conversion.py: the field normalizers (parse_year,      *)
(* parse_date), the record mapper (the dict built per row in               *)
(* get_sheet_records) and the sync engine (upsert_to_mongodb) with the     *)
(* document store it writes to.                                            *)
(*                                                                         *)
(* Python strings are sequences of one-character strings, so that strip,   *)
(* int() and strptime are computed character by character.  Python values  *)
(* are tagged tuples: <<"str", chars>>, <<"int", n>>, <<"date", rec>>,     *)
(* <<"none">>; equality of tagged values is Python's ==.                   *)
(***************************************************************************)
EXTENDS FiniteSets, Integers, Sequences, TLC

VARIABLES
    value,            \* parse_date: the argument
    parsed,           \* parse_date: the returned value
    worksheet_name,   \* get_sheet_records: the worksheet being read
    raw,              \* get_sheet_records: ws.get_all_records()
    records,          \* the documents built by get_sheet_records / passed to upsert
    collection_name,  \* upsert_to_mongodb: the collection written to
    store,            \* the collection's documents, in natural order
    ops,              \* upsert_to_mongodb: the UpdateOne operations built
    pending,          \* bulk_write: indices of ops not yet attempted
    applied,          \* bulk_write: indices of ops applied
    last,             \* bulk_write: for each filter, the op applied last with it
    failed,           \* bulk_write: indices of ops the store rejected
    sinkCalls,        \* number of bulk_write calls made in this pass
    stats,            \* upsert_to_mongodb: counts accumulated / returned
    now,              \* datetime.now(timezone.utc) of the current pass
    pc,               \* where the program is: "idle", "writing", "returned", "raised";
                      \* "call" / "ret" around a single parse_date or mapping call
    passes,           \* passes started so far
    store0,           \* history: the store when this pass began
    storeOrig,        \* history: the store when the first attempt of this input began
    rerun,            \* history: this pass has the same input documents as the previous one
    prevOutcome,      \* history: pc when this pass began
    prevNow           \* history: the timestamp of the previous pass

vars == <<value, parsed, worksheet_name, raw, records, collection_name, store, ops,
          pending, applied, last, failed, sinkCalls, stats, now, pc, passes, store0,
          storeOrig, rerun, prevOutcome, prevNow>>

(***************************************************************************)
(* Python values and strings                                               *)
(***************************************************************************)
StrV(s)  == <<"str", s>>
IntV(n)  == <<"int", n>>
NoneV    == <<"none">>
EmptyStr == StrV(<<>>)

Digits == <<"0", "1", "2", "3", "4", "5", "6", "7", "8", "9">>
IsDigit(c) == \E i \in 1..10 : Digits[i] = c
DigitVal(c) == (CHOOSE i \in 1..10 : Digits[i] = c) - 1

Whitespace == {" ", "\t", "\n"}

UpperCase == <<"A", "B", "C", "D", "E", "F", "G", "H", "I", "J", "K", "L", "M",
               "N", "O", "P", "Q", "R", "S", "T", "U", "V", "W", "X", "Y", "Z">>
LowerCase == <<"a", "b", "c", "d", "e", "f", "g", "h", "i", "j", "k", "l", "m",
               "n", "o", "p", "q", "r", "s", "t", "u", "v", "w", "x", "y", "z">>
Lower(c) == IF \E i \in 1..26 : UpperCase[i] = c
            THEN LowerCase[CHOOSE i \in 1..26 : UpperCase[i] = c]
            ELSE c

\* str.strip(): drop leading and trailing whitespace
RECURSIVE LStrip(_)
LStrip(s) == IF s # <<>> /\ Head(s) \in Whitespace THEN LStrip(Tail(s)) ELSE s
RECURSIVE RStrip(_)
RStrip(s) == IF s # <<>> /\ s[Len(s)] \in Whitespace
             THEN RStrip(SubSeq(s, 1, Len(s) - 1)) ELSE s
Strip(s) == RStrip(LStrip(s))

\* str(n) for an integer
RECURSIVE NatRepr(_)
NatRepr(n) == IF n < 10 THEN <<Digits[n + 1]>>
              ELSE NatRepr(n \div 10) \o <<Digits[(n % 10) + 1]>>
IntRepr(n) == IF n < 0 THEN <<"-">> \o NatRepr(0 - n) ELSE NatRepr(n)

\* str(v)
PyStr(v) == IF v[1] = "str" THEN v[2]
            ELSE IF v[1] = "int" THEN IntRepr(v[2])
            ELSE <<"N", "o", "n", "e">>

\* the value of a run of decimal digits
RECURSIVE DigitsVal(_)
DigitsVal(s) == IF s = <<>> THEN 0
                ELSE 10 * DigitsVal(SubSeq(s, 1, Len(s) - 1)) + DigitVal(s[Len(s)])
AllDigits(s) == s # <<>> /\ \A i \in 1..Len(s) : IsDigit(s[i])

\* int(s): an optional sign followed by decimal digits; anything else is ValueError
\* (digit-group underscores and non-ASCII digits are outside the alphabet used here)
IntLiteralOk(s) == IF s # <<>> /\ Head(s) \in {"+", "-"} THEN AllDigits(Tail(s))
                   ELSE AllDigits(s)
IntLiteralVal(s) == IF Head(s) = "-" THEN 0 - DigitsVal(Tail(s))
                    ELSE IF Head(s) = "+" THEN DigitsVal(Tail(s))
                    ELSE DigitsVal(s)

parse_year(v) ==
    IF v = NoneV THEN EmptyStr
    ELSE LET s == Strip(PyStr(v))
         IN  IF s = <<>> THEN EmptyStr
             ELSE IF IntLiteralOk(s) THEN IntV(IntLiteralVal(s))
             ELSE EmptyStr

(***************************************************************************)
(* datetime.strptime(s, fmt), as _strptime does it: the format becomes a   *)
(* regular expression (case-insensitive, whitespace in the format is \s+,  *)
(* each directive a group of alternatives tried in order, with             *)
(* backtracking), the whole string must be consumed, and the date must     *)
(* exist in the calendar.  A format is a sequence of directives and        *)
(* literal characters.                                                     *)
(***************************************************************************)
MonthNames == <<
    <<"J", "a", "n", "u", "a", "r", "y">>,
    <<"F", "e", "b", "r", "u", "a", "r", "y">>,
    <<"M", "a", "r", "c", "h">>,
    <<"A", "p", "r", "i", "l">>,
    <<"M", "a", "y">>,
    <<"J", "u", "n", "e">>,
    <<"J", "u", "l", "y">>,
    <<"A", "u", "g", "u", "s", "t">>,
    <<"S", "e", "p", "t", "e", "m", "b", "e", "r">>,
    <<"O", "c", "t", "o", "b", "e", "r">>,
    <<"N", "o", "v", "e", "m", "b", "e", "r">>,
    <<"D", "e", "c", "e", "m", "b", "e", "r">>>>
MonthAbbrs == [i \in 1..12 |-> SubSeq(MonthNames[i], 1, 3)]
\* _strptime sorts the names of a directive longest first
FullNameOrder == <<9, 2, 11, 12, 1, 10, 8, 3, 4, 6, 7, 5>>
AbbrOrder == <<1, 2, 3, 4, 5, 6, 7, 8, 9, 10, 11, 12>>

At(s, p) == IF p >= 1 /\ p <= Len(s) THEN s[p] ELSE ""
DigitAt(s, p) == IsDigit(At(s, p))
NonZeroDigitAt(s, p) == DigitAt(s, p) /\ At(s, p) # "0"
DV(s, p) == DigitVal(s[p])

\* name occurs in s at position p, ignoring case
NameAt(s, p, name) == /\ p + Len(name) - 1 <= Len(s)
                      /\ \A i \in 1..Len(name) : Lower(s[p + i - 1]) = Lower(name[i])

\* number of whitespace characters of s from position p on
RECURSIVE WsRun(_, _)
WsRun(s, p) == IF At(s, p) \in Whitespace THEN 1 + WsRun(s, p + 1) ELSE 0

Alt(len, field, val) == [len |-> len, field |-> field, val |-> val]

\* the alternatives of one directive that match s at p, in the order the regex tries them
YearAlts(s, p) ==
    IF \A i \in 0..3 : DigitAt(s, p + i)
    THEN <<Alt(4, "Y", DigitsVal(SubSeq(s, p, p + 3)))>> ELSE <<>>
MonthAlts(s, p) ==
    (IF At(s, p) = "1" /\ At(s, p + 1) \in {"0", "1", "2"}
     THEN <<Alt(2, "m", 10 + DV(s, p + 1))>> ELSE <<>>)
    \o (IF At(s, p) = "0" /\ NonZeroDigitAt(s, p + 1)
        THEN <<Alt(2, "m", DV(s, p + 1))>> ELSE <<>>)
    \o (IF NonZeroDigitAt(s, p) THEN <<Alt(1, "m", DV(s, p))>> ELSE <<>>)
DayAlts(s, p) ==
    (IF At(s, p) = "3" /\ At(s, p + 1) \in {"0", "1"}
     THEN <<Alt(2, "d", 30 + DV(s, p + 1))>> ELSE <<>>)
    \o (IF At(s, p) \in {"1", "2"} /\ DigitAt(s, p + 1)
        THEN <<Alt(2, "d", 10 * DV(s, p) + DV(s, p + 1))>> ELSE <<>>)
    \o (IF At(s, p) = "0" /\ NonZeroDigitAt(s, p + 1)
        THEN <<Alt(2, "d", DV(s, p + 1))>> ELSE <<>>)
    \o (IF NonZeroDigitAt(s, p) THEN <<Alt(1, "d", DV(s, p))>> ELSE <<>>)
    \o (IF At(s, p) = " " /\ NonZeroDigitAt(s, p + 1)
        THEN <<Alt(2, "d", DV(s, p + 1))>> ELSE <<>>)
RECURSIVE NameAlts(_, _, _, _)
NameAlts(s, p, names, order) ==
    IF order = <<>> THEN <<>>
    ELSE (IF NameAt(s, p, names[Head(order)])
          THEN <<Alt(Len(names[Head(order)]), "m", Head(order))>> ELSE <<>>)
         \o NameAlts(s, p, names, Tail(order))
\* \s+ is greedy: the longest run first, then shorter ones
RECURSIVE WsAlts(_)
WsAlts(n) == IF n = 0 THEN <<>> ELSE <<Alt(n, "-", 0)>> \o WsAlts(n - 1)

Alts(s, p, tok) ==
    CASE tok = "%Y" -> YearAlts(s, p)
      [] tok = "%m" -> MonthAlts(s, p)
      [] tok = "%d" -> DayAlts(s, p)
      [] tok = "%B" -> NameAlts(s, p, MonthNames, FullNameOrder)
      [] tok = "%b" -> NameAlts(s, p, MonthAbbrs, AbbrOrder)
      [] tok = " "  -> WsAlts(WsRun(s, p))
      [] OTHER      -> IF At(s, p) = tok THEN <<Alt(1, "-", 0)>> ELSE <<>>

NoMatch == [ok |-> FALSE, end |-> 0, Y |-> 0, m |-> 0, d |-> 0]
Bind(acc, a) == IF a.field = "-" THEN acc ELSE [acc EXCEPT ![a.field] = a.val]

RECURSIVE Match(_, _, _, _, _)
RECURSIVE TryAlts(_, _, _, _, _, _)
Match(s, p, fmt, k, acc) ==
    IF k > Len(fmt) THEN [ok |-> TRUE, end |-> p, Y |-> acc.Y, m |-> acc.m, d |-> acc.d]
    ELSE TryAlts(s, p, fmt, k, acc, Alts(s, p, fmt[k]))
TryAlts(s, p, fmt, k, acc, alts) ==
    IF alts = <<>> THEN NoMatch
    ELSE LET r == Match(s, p + Head(alts).len, fmt, k + 1, Bind(acc, Head(alts)))
         IN  IF r.ok THEN r ELSE TryAlts(s, p, fmt, k, acc, Tail(alts))

IsLeap(y) == (y % 4 = 0 /\ y % 100 # 0) \/ y % 400 = 0
DaysInMonth(y, m) == IF m = 2 THEN (IF IsLeap(y) THEN 29 ELSE 28)
                     ELSE IF m \in {4, 6, 9, 11} THEN 30 ELSE 31
MINYEAR == 1

ValueError == <<"ValueError">>
DateTime(y, m, d, tz) ==
    <<"date", [year |-> y, month |-> m, day |-> d, hour |-> 0, minute |-> 0,
               second |-> 0, tzinfo |-> tz]>>
WithTz(dt, tz) == <<"date", [dt[2] EXCEPT !.tzinfo = tz]>>

strptime(s, fmt) ==
    LET r == Match(s, 1, fmt, 1, [Y |-> 1900, m |-> 1, d |-> 1])
    IN  IF ~r.ok \/ r.end # Len(s) + 1 THEN ValueError
        ELSE IF r.Y < MINYEAR \/ r.d < 1 \/ r.d > DaysInMonth(r.Y, r.m) THEN ValueError
        ELSE DateTime(r.Y, r.m, r.d, "None")

\* faulty variant: the day-first slash format tried before the month-first one
formats_DayFirst == <<
    <<"%Y", "-", "%m", "-", "%d">>,
    <<"%Y", "/", "%m", "/", "%d">>,
    <<"%d", "/", "%m", "/", "%Y">>,
    <<"%m", "/", "%d", "/", "%Y">>,
    <<"%B", " ", "%d", ",", " ", "%Y">>,
    <<"%b", " ", "%d", ",", " ", "%Y">> >>
formats == <<
    <<"%Y", "-", "%m", "-", "%d">>,
    <<"%Y", "/", "%m", "/", "%d">>,
    <<"%m", "/", "%d", "/", "%Y">>,
    <<"%d", "/", "%m", "/", "%Y">>,
    <<"%B", " ", "%d", ",", " ", "%Y">>,
    <<"%b", " ", "%d", ",", " ", "%Y">> >>

\* the for loop of parse_date: the first format that parses, else ""
RECURSIVE FirstParse(_, _)
FirstParse(s, fmts) ==
    IF fmts = <<>> THEN EmptyStr
    ELSE LET dt == strptime(s, Head(fmts))
         IN  IF dt # ValueError THEN WithTz(dt, "UTC") ELSE FirstParse(s, Tail(fmts))

parse_date(v) ==
    IF v = NoneV THEN EmptyStr
    ELSE LET s == Strip(PyStr(v))
         IN  IF s = <<>> THEN EmptyStr ELSE FirstParse(s, formats)

(***************************************************************************)
(* The values parse_date is called on: three numeric tokens joined by      *)
(* "-" or "/", month-name dates, padded variants, and non-string cells.    *)
(***************************************************************************)
YearToks == {<<"2", "0", "2", "4">>, <<"2", "0", "2", "3">>, <<"0", "0", "0", "0">>}
ShortToks == {<<"0", "1">>, <<"1">>, <<"0", "2">>, <<"1", "2">>, <<"1", "3">>, <<"1", "5">>, <<"2", "9">>, <<"3", "0">>, <<"3", "1">>, <<"0", "0">>}
NumToks == YearToks \cup ShortToks
Seps == {<<"-">>, <<"/">>}
Pads == {<<>>, <<" ">>}
NumericDates == {pad \o t1 \o s1 \o t2 \o s2 \o t3 :
                    pad \in Pads, t1 \in NumToks, s1 \in Seps, t2 \in NumToks,
                    s2 \in Seps, t3 \in NumToks}
NameToks == {<<"J", "a", "n", "u", "a", "r", "y">>, <<"J", "a", "n">>, <<"J", "A", "N", "U", "A", "R", "Y">>, <<"f", "e", "b", "r", "u", "a", "r", "y">>, <<"F", "e", "b">>, <<"M", "a", "y">>, <<"S", "e", "p", "t">>, <<"F", "o", "o">>}
Gaps == {<<>>, <<" ">>, <<" ", " ">>}
NamedDates == {n \o g1 \o d \o <<",">> \o g2 \o y :
                  n \in NameToks, g1 \in Gaps, d \in {<<"1", "5">>, <<"5">>, <<"2", "9">>, <<"3", "1">>},
                  g2 \in Gaps, y \in YearToks}
OtherStrings == {<<>>, <<" ", " ">>, <<"0", "1", "/", " ", "5", "/", "2", "0", "2", "4">>, <<"2", "0", "2", "4", "-", "0", "1", "-", "1", "5", "x">>, <<"1", "5", ".", "0", "1", ".", "2", "0", "2", "4">>}
DateValues == {NoneV, IntV(2024)}
              \cup {StrV(s) : s \in NumericDates \cup NamedDates \cup OtherStrings}

(***************************************************************************)
(* Record mapper: the dict get_sheet_records builds for one row r of the   *)
(* worksheet.  A row is a function from the columns it has to cells; a     *)
(* document is a function from field names to values.                      *)
(***************************************************************************)
Get(r, k, default) == IF k \in DOMAIN r THEN r[k] ELSE default
\* str(r.get(k, "")).strip()
Cell(r, k) == StrV(Strip(PyStr(Get(r, k, EmptyStr))))
\* **({...} if cond else {})
When(cond, d) == IF cond THEN d ELSE <<>>

\* faulty variant: url and the parsed date kept for every recognized sheet
DatedSheets_All == {"Publications", "Presentations", "Preprints"}
BiblioSheets == {"Publications", "Preprints"}
DatedSheets == {"Publications", "Presentations"}

MapRow(ws, r) ==
    ("title" :> Cell(r, "title"))
    @@ When(ws = "Presentations", "unique_id" :> Cell(r, "unique_id"))
    @@ When(ws = "Publications", "year" :> parse_year(Get(r, "year", NoneV)))
    @@ When(ws \in BiblioSheets, "authors" :> Cell(r, "authors"))
    @@ When(ws \in BiblioSheets, "publisher" :> Cell(r, "publisher"))
    @@ When(ws \in BiblioSheets, "doi" :> Cell(r, "doi"))
    @@ When(ws \in DatedSheets, "url" :> Cell(r, "url"))
    @@ (IF ws \in DatedSheets THEN "date" :> parse_date(Get(r, "date", NoneV))
        ELSE "date" :> parse_year(Get(r, "date", NoneV)))
    @@ When(ws = "Presentations", "event" :> Cell(r, "event"))
    @@ When(ws = "Presentations", "location" :> Cell(r, "location"))
    @@ When(ws = "Presentations", "format" :> Cell(r, "format"))
    @@ ("image" :> Cell(r, "image"))


\* the loop of get_sheet_records over the rows
get_sheet_records(ws, rows) == [i \in 1..Len(rows) |-> MapRow(ws, rows[i])]

(***************************************************************************)
(* The store: one collection, a sequence of documents in natural order.    *)
(* UpdateOne(filter, {"$set": doc}, upsert=True) updates the first         *)
(* document matching the filter, or inserts filter + doc when none does.   *)
(***************************************************************************)
Matches(d, filter) == \A f \in DOMAIN filter : f \in DOMAIN d /\ d[f] = filter[f]
\* faulty variant: the filter never finds the stored document
HasMatch_Never(st, filter) == FALSE
HasMatch(st, filter) == \E i \in 1..Len(st) : Matches(st[i], filter)
FirstMatch(st, filter) ==
    CHOOSE i \in 1..Len(st) :
        Matches(st[i], filter) /\ \A j \in 1..(i - 1) : ~Matches(st[j], filter)
\* faulty variant: the update replaces the stored document instead of setting fields
SetFields_Replace(old, set) == set
\* $set: the fields of the update replace or extend those of the stored document
SetFields(old, set) == set @@ old

\* faulty variant: a plain insert instead of an upsert
UpdateOne_InsertOnly(st, op) == Append(st, op.set)
UpdateOne(st, op) ==
    IF HasMatch(st, op.filter)
    THEN LET i == FirstMatch(st, op.filter)
         IN  [st EXCEPT ![i] = SetFields(st[i], op.set)]
    ELSE Append(st, SetFields(op.filter, op.set))

ZeroStats == [upserted |-> 0, modified |-> 0, matched |-> 0]
\* the counts one applied operation adds to the BulkWriteResult
Count(st, op, acc) ==
    IF HasMatch(st, op.filter)
    THEN [acc EXCEPT !.matched = @ + 1,
                     !.modified = @ + (IF UpdateOne(st, op) # st THEN 1 ELSE 0)]
    ELSE [acc EXCEPT !.upserted = @ + 1]

(***************************************************************************)
(* Sync engine: upsert_to_mongodb up to the bulk_write call.               *)
(***************************************************************************)
\* the if / elif / else on collection_name
KeyField(c) == IF c = "publications" THEN "url"
               ELSE IF c = "presentations" THEN "unique_id"
               ELSE "doi"

\* faulty variant: the documents are not stamped
Stamp_None(doc, t) == doc
Stamp(doc, t) == ("_syncedAt" :> <<"ts", t>>) @@ doc
StampAll(docs, t) == [i \in 1..Len(docs) |-> Stamp(docs[i], t)]

\* faulty variant: only a document without the key field is skipped
Skipped_AbsentOnly(c, doc) == KeyField(c) \notin DOMAIN doc

\* filter_doc[key] == "": the document is skipped
Skipped(c, doc) == Get(doc, KeyField(c), EmptyStr) = EmptyStr

\* the loop that builds ops, over documents already stamped
RECURSIVE BuildOps(_, _)
BuildOps(c, docs) ==
    IF docs = <<>> THEN <<>>
    ELSE LET doc == Head(docs)
             key == KeyField(c)
         IN  (IF Skipped(c, doc) THEN <<>>
              ELSE <<[filter |-> (key :> Get(doc, key, EmptyStr)), set |-> doc]>>)
             \o BuildOps(c, Tail(docs))

\* faulty variant: the early return for an empty operation list is missing
SinkInvoked_NoOpsCheck(docs, os) == docs # <<>>
\* bulk_write is reached: neither early return was taken
SinkInvoked(docs, os) == docs # <<>> /\ os # <<>>

(***************************************************************************)
(* Inputs of the sync passes                                               *)
(***************************************************************************)
MaxDocs == 2
MaxPasses == 2

WorksheetNames == {"Publications", "Presentations", "Preprints", "Sheet1"}
CollectionNames == {"publications", "presentations", "preprints", "misc"}

\* a sheet row with key cell k in its url, unique_id and doi columns
KeyedRow(k, t) ==
    [title |-> StrV(t), url |-> StrV(k), unique_id |-> StrV(k), doi |-> StrV(k),
     year |-> IntV(2020), date |-> StrV(<<"2", "0", "2", "4", "-", "0", "1", "-", "1", "5">>),
     authors |-> StrV(<<"A">>), event |-> StrV(<<"E">>)]
\* a row without keys: no url column, a blank unique_id, an empty doi
KeylessRow == [title |-> StrV(<<"T">>), unique_id |-> StrV(<<" ">>), doi |-> StrV(<<>>)]
SyncRows == {KeylessRow, KeyedRow(<<"a">>, <<"T">>), KeyedRow(<<" ", "a">>, <<"U">>),
             KeyedRow(<<"b">>, <<"T">>)}
Batches == UNION {[1..n -> SyncRows] : n \in 0..MaxDocs}

\* get_sheet_records with MapRow tabulated over the rows of the passes
MappedRow == [ws \in WorksheetNames |-> [r \in SyncRows |-> MapRow(ws, r)]]
MappedBatch(ws, rows) == [i \in 1..Len(rows) |-> MappedRow[ws][rows[i]]]

Unstamp(doc) == [f \in DOMAIN doc \ {"_syncedAt"} |-> doc[f]]
UnstampAll(docs) == [i \in 1..Len(docs) |-> Unstamp(docs[i])]
NoStats == <<>>

(***************************************************************************)
(* The program: main() runs one pass per (worksheet, collection) pair;     *)
(* here the passes of one collection.  A pass is get_sheet_records, then   *)
(* upsert_to_mongodb up to bulk_write (StartPass), then the store applying *)
(* or rejecting the operations of the unordered batch one at a time, in    *)
(* any order (ApplyOp, RejectOp); the step that handles the last           *)
(* operation also ends the call.                                           *)
(***************************************************************************)
IdleDate == value = NoneV /\ parsed = NoneV
IdleSync ==
    /\ store = <<>> /\ ops = <<>> /\ pending = {} /\ applied = {} /\ last = {} /\ failed = {}
    /\ sinkCalls = 0 /\ stats = NoStats /\ now = 0 /\ passes = 0
    /\ store0 = <<>> /\ storeOrig = <<>> /\ rerun = FALSE
    /\ prevOutcome = "idle" /\ prevNow = 0

Init ==
    /\ IdleDate /\ IdleSync
    /\ collection_name \in CollectionNames
    /\ worksheet_name = "" /\ raw = <<>> /\ records = <<>>
    /\ pc = "idle"

StartPass(ws, rows) ==
    /\ pc \in {"idle", "returned", "raised"}
    /\ passes < MaxPasses
    /\ \E t \in (IF passes = 0 THEN {1} ELSE {now, now + 1}) :
         LET mapped == MappedBatch(ws, rows)
             docs == StampAll(mapped, t)
             os == BuildOps(collection_name, docs)
             same == passes > 0 /\ mapped = UnstampAll(records)
         IN  /\ worksheet_name' = ws
             /\ raw' = rows
             /\ records' = docs
             /\ now' = t
             /\ prevNow' = now
             /\ ops' = os
             /\ IF SinkInvoked(docs, os)
                THEN /\ pc' = "writing"
                     /\ pending' = 1..Len(os)
                     /\ sinkCalls' = 1
                ELSE /\ pc' = "returned"
                     /\ pending' = {}
                     /\ sinkCalls' = 0
             /\ stats' = ZeroStats
             /\ applied' = {}
             /\ last' = {}
             /\ failed' = {}
             /\ passes' = passes + 1
             /\ rerun' = same
             /\ prevOutcome' = pc
             /\ store0' = store
             /\ storeOrig' = IF same THEN storeOrig ELSE store
    /\ UNCHANGED <<value, parsed, collection_name, store>>

\* bulk_write returns the counts when no operation failed, else raises BulkWriteError,
\* which upsert_to_mongodb does not catch
EndOfBatch(left, bad, acc) ==
    IF left # {} THEN pc' = "writing" /\ stats' = acc
    ELSE IF bad = {} THEN pc' = "returned" /\ stats' = acc
    ELSE pc' = "raised" /\ stats' = NoStats

ApplyOp(i) ==
    /\ pc = "writing"
    /\ i \in pending
    /\ store' = UpdateOne(store, ops[i])
    /\ applied' = applied \cup {i}
    /\ last' = (last \ {j \in last : ops[j].filter = ops[i].filter}) \cup {i}
    /\ pending' = pending \ {i}
    /\ EndOfBatch(pending \ {i}, failed, Count(store, ops[i], stats))
    /\ UNCHANGED <<value, parsed, worksheet_name, raw, records, collection_name, ops,
                   failed, sinkCalls, now, passes, store0, storeOrig, rerun,
                   prevOutcome, prevNow>>

RejectOp(i) ==
    /\ pc = "writing"
    /\ i \in pending
    /\ failed' = failed \cup {i}
    /\ pending' = pending \ {i}
    /\ EndOfBatch(pending \ {i}, failed \cup {i}, stats)
    /\ UNCHANGED <<value, parsed, worksheet_name, raw, records, collection_name, store,
                   ops, applied, last, sinkCalls, now, passes, store0, storeOrig, rerun,
                   prevOutcome, prevNow>>

Next ==
    \/ \E ws \in WorksheetNames, rows \in Batches : StartPass(ws, rows)
    \/ \E i \in 1..MaxDocs : ApplyOp(i)
    \/ \E i \in 1..MaxDocs : RejectOp(i)

Spec == Init /\ [][Next]_vars

(***************************************************************************)
(* parse_date alone: one call on each of the values above                  *)
(***************************************************************************)
InitDate ==
    /\ value \in DateValues /\ parsed = NoneV
    /\ IdleSync
    /\ collection_name = "" /\ worksheet_name = "" /\ raw = <<>> /\ records = <<>>
    /\ pc = "call"

ParseDate ==
    /\ pc = "call"
    /\ parsed' = parse_date(value)
    /\ pc' = "ret"
    /\ UNCHANGED <<value, worksheet_name, raw, records, collection_name, store, ops,
                   pending, applied, last, failed, sinkCalls, stats, now, passes,
                   store0, storeOrig, rerun, prevOutcome, prevNow>>

NextDate == ParseDate
SpecDate == InitDate /\ [][NextDate]_vars

(***************************************************************************)
(* get_sheet_records alone: one worksheet of one row, the row having any   *)
(* subset of the columns                                                   *)
(***************************************************************************)
Columns == {"title", "unique_id", "year", "authors", "publisher", "doi", "url", "date",
            "event", "location", "format", "image"}
MapCells == {StrV(<<" ", "x", " ">>), StrV(<<>>), IntV(2020),
             StrV(<<"0", "1", "/", "1", "5", "/", "2", "0", "2", "4">>)}
MapRows == UNION {[cols -> {cell}] : cols \in SUBSET Columns, cell \in MapCells}

InitMap ==
    /\ IdleDate /\ IdleSync
    /\ collection_name = ""
    /\ worksheet_name \in WorksheetNames
    /\ \E r \in MapRows : raw = <<r>>
    /\ records = <<>>
    /\ pc = "call"

MapSheet ==
    /\ pc = "call"
    /\ records' = get_sheet_records(worksheet_name, raw)
    /\ pc' = "ret"
    /\ UNCHANGED <<value, parsed, worksheet_name, raw, collection_name, store, ops,
                   pending, applied, last, failed, sinkCalls, stats, now, passes,
                   store0, storeOrig, rerun, prevOutcome, prevNow>>

NextMap == MapSheet
SpecMap == InitMap /\ [][NextMap]_vars

(***************************************************************************)
(* Vocabulary of the properties                                            *)
(***************************************************************************)
RecognizedSheets == {"Publications", "Presentations", "Preprints"}
\* the unique-key field each collection kind declares
DeclaredKey == [publications |-> "url", presentations |-> "unique_id", preprints |-> "doi"]
RecognizedCollections == DOMAIN DeclaredKey

Done == pc \in {"returned", "raised"}
HasKey(doc, key) == key \in DOMAIN doc /\ doc[key] # EmptyStr
Keyed(docs, key) == {i \in 1..Len(docs) : HasKey(docs[i], key)}
DocSet(st) == {st[i] : i \in 1..Len(st)}
UniqueKeys(st, key) ==
    \A i, j \in 1..Len(st) :
        (i # j /\ HasKey(st[i], key) /\ HasKey(st[j], key)) => st[i][key] # st[j][key]
DistinctFilters(os) == \A i, j \in 1..Len(os) : i # j => os[i].filter # os[j].filter

\* the store and the counts after the operations os are applied to st in the given order
RECURSIVE ApplyAll(_, _, _)
ApplyAll(st, os, order) ==
    IF order = <<>> THEN st
    ELSE ApplyAll(UpdateOne(st, os[Head(order)]), os, Tail(order))
RECURSIVE CountAll(_, _, _, _)
CountAll(st, os, order, acc) ==
    IF order = <<>> THEN acc
    ELSE CountAll(UpdateOne(st, os[Head(order)]), os, Tail(order),
                  Count(st, os[Head(order)], acc))
Orders(n) == {p \in [1..n -> 1..n] : \A i, j \in 1..n : i # j => p[i] # p[j]}
ListOrder(n) == [i \in 1..n |-> i]

(***************************************************************************)
(* C1.  A document whose unique-key field is empty or absent produces no   *)
(* upsert operation: the operations built are as many as the documents     *)
(* with a non-empty key, every filter carries a non-empty key, no stored   *)
(* document has an empty key, and a completed pass counts exactly the      *)
(* operations built.                                                       *)
(***************************************************************************)
C1_EmptyKeyNeverWritten ==
    (pc \in {"writing", "returned", "raised"} /\ collection_name \in RecognizedCollections) =>
        LET key == DeclaredKey[collection_name]
        IN  /\ Len(ops) = Cardinality(Keyed(records, key))
            /\ \A j \in 1..Len(ops) : HasKey(ops[j].filter, key) /\ HasKey(ops[j].set, key)
            /\ \A d \in DocSet(store) : HasKey(d, key)
            /\ \A d \in DocSet(store) \ DocSet(store0) :
                   \E i \in Keyed(records, key) : d[key] = records[i][key]
            /\ pc = "returned" => stats.matched + stats.upserted = Cardinality(Keyed(records, key))

\* a completed pass over a batch that mixes keyed and keyless documents
C1_Witness ==
    /\ pc = "returned"
    /\ collection_name = "publications"
    /\ Len(records) = 2 /\ Len(ops) = 1
    /\ "url" \in DOMAIN records[1] /\ records[1]["url"] = EmptyStr
    /\ stats.upserted = 1

(***************************************************************************)
(* C6.  bulk_write is called only when at least one operation was built:   *)
(* for an empty batch and for a batch of keyless documents the pass        *)
(* returns all-zero counts, makes no store call and leaves the store as it *)
(* was.                                                                    *)
(***************************************************************************)
C6_SinkOnlyWithOps ==
    pc # "idle" =>
        /\ sinkCalls = 1 => Len(ops) >= 1
        /\ (collection_name \in RecognizedCollections
            /\ Keyed(records, DeclaredKey[collection_name]) = {}) =>
               /\ pc = "returned"
               /\ sinkCalls = 0
               /\ stats = ZeroStats
               /\ store = store0

\* a non-empty batch of keyless documents met a non-empty store
C6_Witness ==
    /\ pc = "returned"
    /\ collection_name = "presentations"
    /\ Len(records) = 2 /\ ops = <<>>
    /\ sinkCalls = 0
    /\ store # <<>>

(***************************************************************************)
(* C5.  When a pass that began with a store in which every non-empty key   *)
(* identifies at most one document has ended, every non-empty key still    *)
(* identifies at most one stored document, whatever the batch and the      *)
(* order of application.                                                   *)
(***************************************************************************)
C5_KeysStayUnique ==
    (Done /\ collection_name \in RecognizedCollections) =>
        LET key == DeclaredKey[collection_name]
        IN  UniqueKeys(store0, key) => UniqueKeys(store, key)

\* two documents of the batch share a key and the store already held documents
C5_Witness ==
    /\ pc = "returned"
    /\ collection_name \in RecognizedCollections
    /\ Len(ops) = 2 /\ ops[1].filter = ops[2].filter
    /\ applied = {1, 2}
    /\ store0 # <<>>
    /\ stats.upserted = 1 /\ stats.matched = 1

(***************************************************************************)
(* C2 as stated.  A second run with identical input documents, after a     *)
(* first run that returned, reports upserted = 0 and modified = 0.         *)
(***************************************************************************)
SecondRun == pc = "returned" /\ rerun /\ prevOutcome = "returned"

C2_SecondRunWritesNothing ==
    SecondRun => (stats.upserted = 0 /\ stats.modified = 0)

(***************************************************************************)
(* C2 amended.  A second run with identical input documents reports        *)
(* upserted = 0 and matches every operation it built.  It reports          *)
(* modified = 0 only when it stamps the timestamp the first run stamped    *)
(* (and the keys of the batch are pairwise distinct); with a later         *)
(* timestamp every key's document is modified: modified is at least the    *)
(* number of distinct keys, and equals the number of operations when the   *)
(* keys are pairwise distinct.  With pairwise distinct keys the stored     *)
(* fields other than _syncedAt are what they were.                         *)
(***************************************************************************)
C2_SecondRunRestampsOnly ==
    SecondRun =>
        /\ stats.upserted = 0
        /\ stats.matched = Len(ops)
        /\ now # prevNow =>
               /\ stats.modified >= Cardinality({ops[i].filter : i \in 1..Len(ops)})
               /\ DistinctFilters(ops) => stats.modified = Len(ops)
        /\ (now = prevNow /\ DistinctFilters(ops)) => stats.modified = 0
        /\ DistinctFilters(ops) => UnstampAll(store) = UnstampAll(store0)

\* the second run re-stamped both documents of a batch with two keys
C2_Witness ==
    /\ SecondRun
    /\ Len(ops) = 2 /\ DistinctFilters(ops)
    /\ now # prevNow
    /\ stats = [upserted |-> 0, modified |-> 2, matched |-> 2]

(***************************************************************************)
(* C3.  When the store reports a failure for some operations of the batch, *)
(* the pass still returns, and its result carries a failure count beside   *)
(* the matched / modified / upserted counts.                               *)
(***************************************************************************)
C3_PartialFailureReported ==
    (Done /\ failed # {}) =>
        /\ pc = "returned"
        /\ \E f \in DOMAIN stats \ {"matched", "modified", "upserted"} :
               stats[f] = Cardinality(failed)

(***************************************************************************)
(* C4.  A pass whose worksheet or collection is not one of the recognized  *)
(* kinds fails at once: it maps no document, builds no operation and makes *)
(* no store call.                                                          *)
(***************************************************************************)
C4_UnknownKindFailsFast ==
    (pc # "idle" /\ (worksheet_name \notin RecognizedSheets
                     \/ collection_name \notin RecognizedCollections)) =>
        /\ pc = "raised"
        /\ records = <<>>
        /\ ops = <<>>
        /\ sinkCalls = 0
        /\ store = store0

(***************************************************************************)
(* C9.  Retrying a pass is safe: when a pass raised after any subset of    *)
(* its operations had been applied and the same documents are synced       *)
(* again and the pass returns, the store, _syncedAt apart, is one that a   *)
(* single successful pass from the original store would have left, and     *)
(* no key has two documents.                                               *)
(***************************************************************************)
Retried == pc = "returned" /\ rerun /\ prevOutcome = "raised"

C9_RetryIsSafe ==
    Retried =>
        /\ \E order \in Orders(Len(ops)) :
               DocSet(UnstampAll(store)) = DocSet(UnstampAll(ApplyAll(storeOrig, ops, order)))
        /\ Cardinality(DocSet(UnstampAll(store))) = Len(store)
        /\ UniqueKeys(store, KeyField(collection_name))

\* the failed attempt had applied one of two operations before the retry
C9_Witness ==
    /\ Retried
    /\ Len(ops) = 2 /\ DistinctFilters(ops)
    /\ Len(store0) = Len(storeOrig) + 1
    /\ Len(store) = Len(storeOrig) + 2

(***************************************************************************)
(* C10.  For a pass that returned: (a) when the keys of the batch are      *)
(* pairwise distinct, the store and the counts are those of applying the   *)
(* operations in list order, whatever order was taken; (b) for every key,  *)
(* the stored document carries the fields of the operation applied last    *)
(* with that key; (c) every document stored before the pass keeps all its  *)
(* fields, and keeps the value of every field that no applied operation    *)
(* on it carries.                                                          *)
(***************************************************************************)
C10_UnorderedBatch ==
    (pc = "returned" /\ sinkCalls = 1) =>
        LET n == Len(ops)
        IN  /\ DistinctFilters(ops) =>
                   /\ DocSet(store) = DocSet(ApplyAll(store0, ops, ListOrder(n)))
                   /\ stats = CountAll(store0, ops, ListOrder(n), ZeroStats)
            /\ \A i \in last :
                   \E d \in DocSet(store) :
                       /\ Matches(d, ops[i].filter)
                       /\ \A f \in DOMAIN ops[i].set : f \in DOMAIN d /\ d[f] = ops[i].set[f]
            /\ \A k \in 1..Len(store0) :
                   /\ DOMAIN store0[k] \subseteq DOMAIN store[k]
                   /\ \A f \in DOMAIN store0[k] :
                          (\A i \in applied :
                               Matches(store0[k], ops[i].filter) => f \notin DOMAIN ops[i].set)
                          => store[k][f] = store0[k][f]

\* two documents share a key and differ, the first in the list was applied last, and the
\* stored document had a field the batch does not carry
C10_Witness ==
    /\ pc = "returned"
    /\ Len(ops) = 2 /\ ops[1].filter = ops[2].filter /\ ops[1].set # ops[2].set
    /\ last = {1}
    /\ Len(store0) = 1 /\ Len(store) = 1
    /\ store[1]["title"] = ops[1].set["title"]
    /\ DOMAIN store0[1] \ DOMAIN ops[1].set # {}

(***************************************************************************)
(* C7.  The field keys of a mapped document depend on the sheet kind       *)
(* alone, whatever columns the row has: a Publications document has no     *)
(* event, location, format or unique_id key, a Presentations document no   *)
(* year, authors, publisher or doi key, a Preprints document no url, year, *)
(* unique_id, event, location or format key.                               *)
(***************************************************************************)
CommonFields == {"title", "date", "image"}
FieldsOfKind ==
    [Publications |-> CommonFields \cup {"year", "authors", "publisher", "doi", "url"},
     Presentations |-> CommonFields \cup {"unique_id", "url", "event", "location", "format"},
     Preprints |-> CommonFields \cup {"authors", "publisher", "doi"}]
AbsentOfKind ==
    [Publications |-> {"event", "location", "format", "unique_id"},
     Presentations |-> {"year", "authors", "publisher", "doi"},
     Preprints |-> {"url", "year", "unique_id", "event", "location", "format"}]

DocumentedFormats == <<
    <<"%Y", "-", "%m", "-", "%d">>,
    <<"%Y", "/", "%m", "/", "%d">>,
    <<"%m", "/", "%d", "/", "%Y">>,
    <<"%d", "/", "%m", "/", "%Y">>,
    <<"%B", " ", "%d", ",", " ", "%Y">>,
    <<"%b", " ", "%d", ",", " ", "%Y">> >>

\* the pieces of s between occurrences of the character c
RECURSIVE SplitOn(_, _)
SplitOn(s, c) ==
    IF \A i \in 1..Len(s) : s[i] # c THEN <<s>>
    ELSE LET p == CHOOSE i \in 1..Len(s) : s[i] = c /\ \A j \in 1..(i - 1) : s[j] # c
         IN  <<SubSeq(s, 1, p - 1)>> \o SplitOn(SubSeq(s, p + 1, Len(s)), c)

UtcMidnight(y, m, d) ==
    <<"date", [year |-> y, month |-> m, day |-> d, hour |-> 0, minute |-> 0,
               second |-> 0, tzinfo |-> "UTC"]>>
\* the calendar date y-m-d at UTC midnight, or the empty value when there is no such date
DateOrAbsent(y, m, d) ==
    IF y >= 1 /\ m \in 1..12 /\ d >= 1 /\ d <= DaysInMonth(y, m)
    THEN UtcMidnight(y, m, d) ELSE EmptyStr

SlashDate(s) ==
    LET parts == SplitOn(s, "/")
    IN  /\ Len(parts) = 3
        /\ \A i \in 1..3 : AllDigits(parts[i])
        /\ Len(parts[1]) <= 2 /\ Len(parts[2]) <= 2 /\ Len(parts[3]) = 4

C8_FirstFormatWins ==
    pc = "ret" =>
        IF value = NoneV THEN parsed = EmptyStr
        ELSE LET s == Strip(PyStr(value))
                 ok == {k \in 1..6 : strptime(s, DocumentedFormats[k]) # ValueError}
             IN  /\ ok = {} => parsed = EmptyStr
                 /\ ok # {} =>
                        LET k == CHOOSE k \in ok : \A j \in ok : k <= j
                        IN  parsed = WithTz(strptime(s, DocumentedFormats[k]), "UTC")
                 /\ parsed # EmptyStr =>
                        /\ parsed[1] = "date"
                        /\ parsed[2].hour = 0 /\ parsed[2].minute = 0 /\ parsed[2].second = 0
                        /\ parsed[2].tzinfo = "UTC"
                 /\ SlashDate(s) =>
                        LET parts == SplitOn(s, "/")
                            a == DigitsVal(parts[1])
                            b == DigitsVal(parts[2])
                            y == DigitsVal(parts[3])
                        IN  parsed = IF a <= 12 THEN DateOrAbsent(y, a, b)
                                     ELSE DateOrAbsent(y, b, a)

\* "13/01/2024" was parsed day-first
C8_Witness ==
    /\ pc = "ret"
    /\ value = StrV(<<"1", "3", "/", "0", "1", "/", "2", "0", "2", "4">>)
    /\ parsed = UtcMidnight(2024, 1, 13)

====
